---- MODULE Spec2Model ----
(***************************************************************************)
(* Incidence-list construction and recursive depth-first search of         *)
(* src/main.rs, as a state machine.                                        *)
(*                                                                         *)
(* Arrays are functions over 0..n (per vertex) and 0..m (per edge); slot 0 *)
(* is the unused dummy slot of the 1-based arrays and 0 is the "no edge"   *)
(* sentinel.  The recursion of dfs::go is an explicit stack of frames      *)
(* [v, a]: the vertex of the call and its loop variable a.                 *)
(***************************************************************************)
EXTENDS Integers, Sequences, FiniteSets

\* Largest number of vertices and of edges of the edge lists explored.
MaxN == 3
MaxM == 3

VARIABLES
    n, m,               \* vertex count and edge count passed by the caller
    tail, head,         \* EdgeList.tail, EdgeList.head (slot 0 is the dummy 0)
    edge_first, edge_next, rev_edge_first, rev_edge_next,   \* DirectedGraph
    pc,                 \* "input" -> "built" -> "dfs" -> "done"
    start,              \* the start vertex handed to dfs (0 before the call)
    pre_label, post_label,  \* DfsTime
    k, j,               \* the two label counters of dfs
    stack,              \* active go calls, outermost first
    calls,              \* history: number of go calls made for each vertex
    examLog,            \* history: the edges whose head was read at line 117,
                        \*          in order, each with the vertex of the call
    parent,             \* history: the vertex whose go call called go(w)
    via,                \* history: the edge through which go(w) was called
    maxDepth            \* history: largest number of simultaneously active calls

vars == <<n, m, tail, head, edge_first, edge_next, rev_edge_first,
          rev_edge_next, pc, start, pre_label, post_label, k, j, stack,
          calls, examLog, parent, via, maxDepth>>

inputVars == <<n, m, tail, head>>
graphVars == <<edge_first, edge_next, rev_edge_first, rev_edge_next>>

Max(x, y) == IF x >= y THEN x ELSE y

Zeros(len) == [i \in 0..len |-> 0]

\* The valid edge lists: tail and head of length mm+1 with the dummy 0 in
\* slot 0 and vertex ids 1..nn elsewhere.
EdgeArrays(nn, mm) ==
    {f \in [0..mm -> 0..nn] : f[0] = 0 /\ \A a \in 1..mm : f[a] \in 1..nn}

----------------------------------------------------------------------------
(* dicomp_incidence_list_construct *)

\* Mutant of EdgeOrder: the loop written for a in 1..=m, without .rev().
EdgeOrderAscending(mm) == [i \in 1..mm |-> i]

\* for a in (1..=m).rev(): the edge ids in the order the loop takes them.
EdgeOrder(mm) == [i \in 1..mm |-> mm + 1 - i]

\* Mutant of Prepend: the link edge_next[a] = edge_first[v] is left out.
PrependNoLink(first, next, v, a) ==
    [first |-> [first EXCEPT ![v] = a],
     next  |-> next]

\* Mutant of Prepend: edge_first[v] is written only while it is still 0.
PrependKeepFirst(first, next, v, a) ==
    [first |-> IF first[v] = 0 THEN [first EXCEPT ![v] = a] ELSE first,
     next  |-> [next EXCEPT ![a] = first[v]]]

\* edge_next[a] = edge_first[v]; edge_first[v] = a;
Prepend(first, next, v, a) ==
    [first |-> [first EXCEPT ![v] = a],
     next  |-> [next EXCEPT ![a] = first[v]]]

\* Mutant of ConstructLoop: the second block copied from the first with
\* graph.tail[a] left in place of graph.head[a].
RECURSIVE ConstructLoopTailTwice(_, _, _, _)
ConstructLoopTailTwice(order, t, h, g) ==
    IF order = <<>> THEN g
    ELSE LET a == Head(order)
             f == Prepend(g.edge_first, g.edge_next, t[a], a)
             r == Prepend(g.rev_edge_first, g.rev_edge_next, t[a], a)
         IN  ConstructLoopTailTwice(Tail(order), t, h,
                                    [edge_first     |-> f.first,
                                     edge_next      |-> f.next,
                                     rev_edge_first |-> r.first,
                                     rev_edge_next  |-> r.next])

\* The loop body for the edges of `order`, first to last.
RECURSIVE ConstructLoop(_, _, _, _)
ConstructLoop(order, t, h, g) ==
    IF order = <<>> THEN g
    ELSE LET a == Head(order)
             f == Prepend(g.edge_first, g.edge_next, t[a], a)
             r == Prepend(g.rev_edge_first, g.rev_edge_next, h[a], a)
         IN  ConstructLoop(Tail(order), t, h,
                           [edge_first     |-> f.first,
                            edge_next      |-> f.next,
                            rev_edge_first |-> r.first,
                            rev_edge_next  |-> r.next])

dicomp_incidence_list_construct(t, h, nn, mm) ==
    ConstructLoop(EdgeOrder(mm), t, h,
                  [edge_first     |-> Zeros(nn),
                   edge_next      |-> Zeros(mm),
                   rev_edge_first |-> Zeros(nn),
                   rev_edge_next  |-> Zeros(mm)])

----------------------------------------------------------------------------
(* dfs and dfs::go *)

\* Mutant of FirstOutEdge: the walk started from the reverse list.
FirstOutEdgeReverse(v) == rev_edge_first[v]

\* let mut a = graph.edge_first[v];
FirstOutEdge(v) == edge_first[v]

\* a = graph.edge_next[a];
NextOutEdge(a) == edge_next[a]

\* Mutant of Undiscovered: the test made on post_label.
UndiscoveredByPost(w) == post_label[w] = 0

\* Mutant of Undiscovered: the test left out.
UndiscoveredAlways(w) == TRUE

\* if pre_label[w] == 0
Undiscovered(w) == pre_label[w] = 0

\* pre_label[v] = *k;
PreLabelOnEntry(labels, v, kk) == [labels EXCEPT ![v] = kk]

\* *k += 1;
NextPre(kk) == kk + 1

\* Mutant of PostLabelOnExit: the pre-order counter written as post label.
PostLabelFromK(labels, v, jj) == [labels EXCEPT ![v] = k]

\* Mutant of PostLabelOnExit: the vertex's pre label written as post label.
PostLabelFromPre(labels, v, jj) == [labels EXCEPT ![v] = pre_label[v]]

\* post_label[v] = *j;
PostLabelOnExit(labels, v, jj) == [labels EXCEPT ![v] = jj]

\* Mutant of NextPost: the increment left out.
NextPostStuck(jj) == jj

\* *j += 1;
NextPost(jj) == jj + 1

Top == stack[Len(stack)]

Init ==
    /\ n \in 1..MaxN
    /\ m \in 0..MaxM
    /\ tail \in EdgeArrays(n, m)
    /\ head \in EdgeArrays(n, m)
    /\ edge_first = Zeros(n)
    /\ edge_next = Zeros(m)
    /\ rev_edge_first = Zeros(n)
    /\ rev_edge_next = Zeros(m)
    /\ pc = "input"
    /\ start = 0
    /\ pre_label = Zeros(n)
    /\ post_label = Zeros(n)
    /\ k = 1
    /\ j = 1
    /\ stack = <<>>
    /\ calls = Zeros(n)
    /\ examLog = <<>>
    /\ parent = Zeros(n)
    /\ via = Zeros(n)
    /\ maxDepth = 0

\* let directed_graph = dicomp_incidence_list_construct(&graph, n, m);
Build ==
    /\ pc = "input"
    /\ LET g == dicomp_incidence_list_construct(tail, head, n, m)
       IN  /\ edge_first' = g.edge_first
           /\ edge_next' = g.edge_next
           /\ rev_edge_first' = g.rev_edge_first
           /\ rev_edge_next' = g.rev_edge_next
    /\ pc' = "built"
    /\ UNCHANGED <<inputVars, start, pre_label, post_label, k, j, stack,
                   calls, examLog, parent, via, maxDepth>>

\* dfs(&graph, &directed_graph, n, v): fresh labels and counters, then the
\* outermost go(v) up to the start of its while loop.
DfsCall(v) ==
    /\ pc = "built"
    /\ start' = v
    /\ pre_label' = PreLabelOnEntry(Zeros(n), v, 1)
    /\ post_label' = Zeros(n)
    /\ k' = NextPre(1)
    /\ j' = 1
    /\ stack' = <<[v |-> v, a |-> FirstOutEdge(v)]>>
    /\ calls' = [calls EXCEPT ![v] = @ + 1]
    /\ maxDepth' = Max(maxDepth, 1)
    /\ pc' = "dfs"
    /\ UNCHANGED <<inputVars, graphVars, examLog, parent, via>>

\* One iteration of the while loop whose head w is undiscovered: the call
\* go(w), up to the start of the callee's while loop.  The caller's frame
\* keeps its a until the call returns.
ExamineCall ==
    /\ pc = "dfs"
    /\ Top.a # 0
    /\ LET v == Top.v
           a == Top.a
           w == head[a]
       IN  /\ Undiscovered(w)
           /\ pre_label' = PreLabelOnEntry(pre_label, w, k)
           /\ k' = NextPre(k)
           /\ stack' = Append(stack, [v |-> w, a |-> FirstOutEdge(w)])
           /\ calls' = [calls EXCEPT ![w] = @ + 1]
           /\ examLog' = Append(examLog, [a |-> a, by |-> v])
           /\ parent' = [parent EXCEPT ![w] = v]
           /\ via' = [via EXCEPT ![w] = a]
           /\ maxDepth' = Max(maxDepth, Len(stack) + 1)
    /\ UNCHANGED <<inputVars, graphVars, pc, start, post_label, j>>

\* One iteration of the while loop whose head w is already discovered.
ExamineSkip ==
    /\ pc = "dfs"
    /\ Top.a # 0
    /\ LET v == Top.v
           a == Top.a
           w == head[a]
       IN  /\ ~Undiscovered(w)
           /\ stack' = [stack EXCEPT ![Len(stack)].a = NextOutEdge(a)]
           /\ examLog' = Append(examLog, [a |-> a, by |-> v])
    /\ UNCHANGED <<inputVars, graphVars, pc, start, pre_label, post_label,
                   k, j, calls, parent, via, maxDepth>>

\* The while loop of the innermost call is over: the post label, the return,
\* and the caller's a = graph.edge_next[a]; the outermost return ends dfs.
GoReturn ==
    /\ pc = "dfs"
    /\ Top.a = 0
    /\ post_label' = PostLabelOnExit(post_label, Top.v, j)
    /\ j' = NextPost(j)
    /\ LET rest == SubSeq(stack, 1, Len(stack) - 1)
       IN  IF rest = <<>>
           THEN /\ stack' = rest
                /\ pc' = "done"
           ELSE /\ stack' = [rest EXCEPT ![Len(rest)].a =
                                           NextOutEdge(rest[Len(rest)].a)]
                /\ pc' = pc
    /\ UNCHANGED <<inputVars, graphVars, start, pre_label, k, calls,
                   examLog, parent, via, maxDepth>>

Next ==
    \/ Build
    \/ \E v \in 1..n : DfsCall(v)
    \/ ExamineCall
    \/ ExamineSkip
    \/ GoReturn

Spec == Init /\ [][Next]_vars

----------------------------------------------------------------------------
(* Properties of the incidence list *)

\* The edges met from edge `a` on along `next`, up to the sentinel 0.  A walk
\* of more than `fuel` edges is cut: a chain that runs into a cycle gives a
\* sequence longer than any sequence of distinct edge ids.
RECURSIVE Walk(_, _, _)
Walk(next, a, fuel) ==
    IF a = 0 \/ fuel = 0 THEN <<>>
    ELSE <<a>> \o Walk(next, next[a], fuel - 1)

ForwardChain(v) == Walk(edge_next, edge_first[v], m + 1)
ReverseChain(v) == Walk(rev_edge_next, rev_edge_first[v], m + 1)

Range(seq) == {seq[i] : i \in DOMAIN seq}

\* The edge ids 1..m in ascending order, restricted to those with end[a] = v.
EdgesAt(end, v) == SelectSeq([a \in 1..m |-> a], LAMBDA a : end[a] = v)

SetMax(S) == CHOOSE x \in S : \A y \in S : y <= x
SetMin(S) == CHOOSE x \in S : \A y \in S : x <= y

\* dicomp_incidence_list_construct has just returned.  No later step writes
\* the four arrays (dfs takes the graph by shared reference).
Constructed == pc = "built"

\* C1: after dicomp_incidence_list_construct, for every vertex v the walk
\* edge_first[v], edge_next[...], ... up to 0 is exactly the ascending
\* sequence of the edges with tail v, each once (empty when v has none).
C1_ForwardChains ==
    Constructed =>
        \A v \in 1..n :
            /\ ForwardChain(v) = EdgesAt(tail, v)
            /\ (edge_first[v] = 0) = (\A a \in 1..m : tail[a] # v)

\* C1 witness: a built graph in which one vertex has three out-edges, two of
\* them parallel, and another vertex has none.
C1_Witness ==
    /\ pc = "built"
    /\ \E v \in 1..n :
          /\ Len(ForwardChain(v)) = 3
          /\ \E a, b \in 1..m : a # b /\ tail[a] = v /\ tail[b] = v
                                /\ head[a] = head[b]
    /\ \E u \in 1..n : edge_first[u] = 0

\* C2: after construction, for every vertex v the reverse walk is exactly the
\* ascending sequence of the edges with head v; every edge lies in the
\* forward chain of its tail only and in the reverse chain of its head only,
\* so a self-loop lies in both chains of its one vertex.
C2_ReverseChains ==
    Constructed =>
        LET fwd == [v \in 1..n |-> Range(ForwardChain(v))]
            rev == [v \in 1..n |-> Range(ReverseChain(v))]
        IN  /\ \A v \in 1..n : ReverseChain(v) = EdgesAt(head, v)
            /\ \A a \in 1..m :
                  /\ {v \in 1..n : a \in fwd[v]} = {tail[a]}
                  /\ {v \in 1..n : a \in rev[v]} = {head[a]}
                  /\ tail[a] = head[a] =>
                        (a \in fwd[tail[a]] /\ a \in rev[tail[a]])

\* C2 witness: a built graph with a self-loop and a vertex with two in-edges
\* whose tails differ.
C2_Witness ==
    /\ pc = "built"
    /\ \E a \in 1..m : tail[a] = head[a]
    /\ \E v \in 1..n : \E a, b \in 1..m :
          a < b /\ head[a] = v /\ head[b] = v /\ tail[a] # tail[b]
          /\ ReverseChain(v) = <<a, b>>

\* The first edge with tail v met when scanning the edge ids from m down to
\* 1 (the largest such id), 0 when there is none.
FirstInReverseScan(v) ==
    LET S == {a \in 1..m : tail[a] = v} IN IF S = {} THEN 0 ELSE SetMax(S)

\* The last edge with tail v met in that scan (the smallest such id).
LastInReverseScan(v) ==
    LET S == {a \in 1..m : tail[a] = v} IN IF S = {} THEN 0 ELSE SetMin(S)

\* C8 as stated: after construction edge_first[v] is the first edge with
\* tail v met when scanning the edges from m down to 1, 0 if v has none.
C8_AsStated ==
    Constructed => \A v \in 1..n : edge_first[v] = FirstInReverseScan(v)

\* C8 amended: after construction edge_first[v] is the last edge with tail v
\* met when scanning the edges from m down to 1, that is the smallest edge
\* id with tail v, and 0 if v has no out-edge.
C8_EdgeFirstIsSmallest ==
    Constructed => \A v \in 1..n : edge_first[v] = LastInReverseScan(v)

\* C8 witness: a built graph where a vertex has several out-edges, so the
\* first and the last edge of the reverse scan differ, and edge_first is the
\* last one.
C8_Witness ==
    /\ pc = "built"
    /\ \E v \in 1..n :
          /\ FirstInReverseScan(v) # LastInReverseScan(v)
          /\ edge_first[v] = LastInReverseScan(v)
          /\ edge_first[v] # 0

----------------------------------------------------------------------------
(* Properties of the traversal *)

Done == pc = "done"

\* The vertices reachable from the vertices of S along the edges of the
\* edge list (S included).
RECURSIVE Closure(_)
Closure(S) ==
    LET T == S \cup {head[a] : a \in {b \in 1..m : tail[b] \in S}}
    IN  IF T = S THEN S ELSE Closure(T)

Reachable(v) == Closure({v})

Reached == {w \in 1..n : pre_label[w] > 0}

\* C3: when dfs returns, a vertex is reachable from the start vertex along
\* forward edges iff both its labels are positive, and every vertex that is
\* not reachable has both labels 0.
C3_LabelsIffReachable ==
    Done =>
        \A w \in 1..n :
            /\ (w \in Reachable(start)) =
                   (pre_label[w] > 0 /\ post_label[w] > 0)
            /\ w \notin Reachable(start) =>
                   (pre_label[w] = 0 /\ post_label[w] = 0)

\* C3 witness: dfs has returned, it reached a vertex other than the start
\* vertex, and a vertex with an edge into the reached part was not reached.
C3_Witness ==
    /\ Done
    /\ \E w \in 1..n : w # start /\ pre_label[w] > 0 /\ post_label[w] > 0
    /\ \E u \in 1..n : \E a \in 1..m :
          /\ tail[a] = u /\ head[a] \in Reachable(start)
          /\ pre_label[u] = 0 /\ post_label[u] = 0

\* C4: when dfs returns with r vertices reached, the pre labels of the
\* reached vertices are pairwise distinct and are exactly 1..r, likewise the
\* post labels; the start vertex has pre label 1 and post label r.
C4_LabelsArePermutations ==
    Done =>
        LET r == Cardinality(Reached)
        IN  /\ {pre_label[w] : w \in Reached} = 1..r
            /\ {post_label[w] : w \in Reached} = 1..r
            /\ \A u, w \in Reached :
                  u # w => /\ pre_label[u] # pre_label[w]
                           /\ post_label[u] # post_label[w]
            /\ pre_label[start] = 1
            /\ post_label[start] = r

\* C4 witness: dfs has returned having reached three vertices, and the two
\* labelings differ on some vertex other than the start vertex.
C4_Witness ==
    /\ Done
    /\ Cardinality(Reached) = 3
    /\ \E w \in Reached : w # start /\ pre_label[w] = post_label[w]
    /\ \E w \in Reached : w # start /\ pre_label[w] # post_label[w]

\* The vertices whose go call encloses that of w: the chain of callers.
RECURSIVE CallersOf(_, _)
CallersOf(w, fuel) ==
    IF parent[w] = 0 \/ fuel = 0 THEN {}
    ELSE {parent[w]} \cup CallersOf(parent[w], fuel - 1)

ProperAncestors(w) == CallersOf(w, n)

\* C5: when dfs returns, every reached vertex v and every proper descendant
\* w of v in the DFS tree satisfy pre_label[v] < pre_label[w] and
\* post_label[v] > post_label[w].
C5_Nesting ==
    Done =>
        \A w \in Reached : \A v \in ProperAncestors(w) :
            /\ v # w
            /\ pre_label[v] < pre_label[w]
            /\ post_label[v] > post_label[w]

\* C5 witness: dfs has returned and some vertex has a grandparent in the DFS
\* tree, in a graph that also holds an edge back to the start vertex.
C5_Witness ==
    /\ Done
    /\ \E w \in Reached :
          /\ parent[w] # 0
          /\ parent[parent[w]] # 0
          /\ parent[parent[w]] \in ProperAncestors(w)
    /\ \E a \in 1..m : head[a] = start /\ tail[a] # start

\* C6: go is called at most once for each vertex; each edge is examined at
\* most once, and by the go call of its tail; at most n calls are active;
\* and while dfs has not returned a step of go is possible.  With at most n
\* calls, n returns and m examinations, every traversal ends.
C6_EachVertexAndEdgeOnce ==
    /\ \A v \in 1..n : calls[v] <= 1
    /\ \A p, q \in DOMAIN examLog : p # q => examLog[p].a # examLog[q].a
    /\ \A p \in DOMAIN examLog :
          /\ examLog[p].a \in 1..m
          /\ examLog[p].by = tail[examLog[p].a]
    /\ Len(stack) <= n
    /\ pc = "dfs" => ENABLED (ExamineCall \/ ExamineSkip \/ GoReturn)

\* C6 witness: dfs has returned on a graph with a directed cycle through
\* the start vertex and a self-loop, all three edges having been examined.
C6_Witness ==
    /\ Done
    /\ Len(examLog) = 3
    /\ \E a \in 1..m : tail[a] = head[a] /\ pre_label[tail[a]] > 0
    /\ \E a, b \in 1..m :
          /\ tail[a] = start /\ head[a] # start
          /\ tail[b] = head[a] /\ head[b] = start

\* The edges examined by the go call of v, in the order of examination.
ExaminedBy(v) ==
    LET sel == SelectSeq(examLog, LAMBDA e : e.by = v)
    IN  [i \in DOMAIN sel |-> sel[i].a]

IsPrefix(s, t) == Len(s) <= Len(t) /\ s = SubSeq(t, 1, Len(s))

\* Depth-first search written directly on the edge list: the out-edges of a
\* vertex are its edges in ascending id order, no incidence list and no
\* stack.  st is [pre, post, k, j].
RECURSIVE RefGo(_, _), RefLoop(_, _)
RefLoop(st, edges) ==
    IF edges = <<>> THEN st
    ELSE LET w == head[Head(edges)]
         IN  RefLoop(IF st.pre[w] = 0 THEN RefGo(st, w) ELSE st, Tail(edges))

RefGo(st, v) ==
    LET entered == [st EXCEPT !.pre[v] = st.k, !.k = st.k + 1]
        looped  == RefLoop(entered, EdgesAt(tail, v))
    IN  [looped EXCEPT !.post[v] = looped.j, !.j = looped.j + 1]

RefDfs(v) == RefGo([pre |-> Zeros(n), post |-> Zeros(n), k |-> 1, j |-> 1], v)

\* C7: the go call of v examines the out-edges of v in ascending edge-id
\* order (at any moment a prefix of them, all of them once dfs has
\* returned); for edges a < b of one tail with distinct heads first
\* discovered through a and through b, the head of a has the smaller pre
\* label and the smaller post label; and the labels returned are those of the
\* depth-first search determined by the edge list, n and the start vertex.
C7_InputOrderTraversal ==
    /\ \A v \in 1..n : IsPrefix(ExaminedBy(v), EdgesAt(tail, v))
    /\ Done =>
          /\ \A v \in Reached : ExaminedBy(v) = EdgesAt(tail, v)
          /\ \A a, b \in 1..m :
                ( /\ a < b
                  /\ tail[a] = tail[b]
                  /\ head[a] # head[b]
                  /\ via[head[a]] = a
                  /\ via[head[b]] = b )
                => /\ pre_label[head[a]] < pre_label[head[b]]
                   /\ post_label[head[a]] < post_label[head[b]]
          /\ LET ref == RefDfs(start)
             IN  pre_label = ref.pre /\ post_label = ref.post

\* C7 witness: dfs has returned and two vertices were first discovered from
\* the start vertex through edges a < b, the head of b being the smaller
\* vertex id.
C7_Witness ==
    /\ Done
    /\ \E a, b \in 1..m :
          /\ a < b
          /\ tail[a] = start /\ tail[b] = start
          /\ head[a] > head[b]
          /\ via[head[a]] = a /\ via[head[b]] = b
          /\ ExaminedBy(start) = <<a, b>>

\* The heads of the out-edges of v.
Successors(v) == {head[a] : a \in {b \in 1..m : tail[b] = v}}

\* The number of vertices of a longest simple path that starts at v and
\* avoids the vertices of `seen` after v.
RECURSIVE LongestFrom(_, _)
LongestFrom(v, seen) ==
    1 + SetMax({0} \cup {LongestFrom(w, seen \cup {w}) :
                            w \in Successors(v) \ seen})

LongestSimplePath(v) == LongestFrom(v, {v})

\* C9 as stated: the recursion depth of dfs equals the length of the longest
\* simple path that starts at the start vertex, both counted in vertices.
C9_AsStated == Done => maxDepth = LongestSimplePath(start)

\* C9 amended: the active go calls always form a simple path of the graph
\* that starts at the start vertex, each call entered through the edge its
\* caller is standing on; so the recursion depth is at least 1 and at most
\* the length of the longest simple path from the start vertex.
C9_DepthAtMostLongestPath ==
    pc \in {"dfs", "done"} =>
        /\ Len(stack) <= maxDepth
        /\ 1 <= maxDepth
        /\ maxDepth <= LongestSimplePath(start)
        /\ stack # <<>> => stack[1].v = start
        /\ \A p, q \in DOMAIN stack : p # q => stack[p].v # stack[q].v
        /\ \A p \in 1..(Len(stack) - 1) :
              /\ stack[p].a \in 1..m
              /\ tail[stack[p].a] = stack[p].v
              /\ head[stack[p].a] = stack[p + 1].v

\* C9 witness: dfs has returned with a recursion depth of at least 2 that is
\* smaller than the length of the longest simple path from the start vertex.
C9_Witness ==
    /\ Done
    /\ maxDepth >= 2
    /\ maxDepth < LongestSimplePath(start)

Active == {stack[p].v : p \in DOMAIN stack}

C10_Inv ==
    pc \in {"dfs", "done"} =>
        /\ {v \in 1..n : pre_label[v] > 0 /\ post_label[v] = 0} = Active
        /\ Cardinality(Active) = Len(stack)
        /\ \A v \in 1..n : post_label[v] > 0 => pre_label[v] > 0
        /\ k - j = Len(stack)
        /\ k - 1 = Cardinality({v \in 1..n : pre_label[v] # 0})
        /\ j - 1 = Cardinality({v \in 1..n : post_label[v] # 0})

C10_LabelsKept ==
    \A v \in 1..n :
        /\ pre_label[v] # 0 => pre_label'[v] = pre_label[v]
        /\ post_label[v] # 0 => post_label'[v] = post_label[v]

\* C10: from the first call of go to its return, at every loop iteration,
\* call and return: the vertices with a pre label and no post label are
\* exactly the vertices of the active go calls, no vertex has a post label
\* without a pre label, k - j is the number of active calls, k - 1 and j - 1
\* count the non-zero pre and post labels, and no step changes a label that
\* is non-zero.
C10_TraversalInvariant == []C10_Inv /\ [][C10_LabelsKept]_vars

\* C10 witness: in the middle of a traversal two calls are active and a
\* third vertex is already finished.
C10_Witness ==
    /\ pc = "dfs"
    /\ Len(stack) = 2
    /\ \E v \in 1..n : post_label[v] > 0 /\ v \notin Active
    /\ k = 4
    /\ j = 2

====
